---- MODULE Spec2Model ----
(***************************************************************************)
(* State-machine model of src/main.py: the three request handlers          *)
(* (upload_doc, ask_question, upload_image), the lazy schema               *)
(* initialisation (init_pixeltable / get_tables) and the temp-file         *)
(* handling under /tmp.  The table store and the external models are the   *)
(* environment: a call to them returns, raises, or never returns.          *)
(*                                                                         *)
(* The handlers are "async def" bodies without any await, so one request   *)
(* runs to completion (or blocks the whole process in an external call)    *)
(* before the next one starts: every handler is one action.                *)
(***************************************************************************)
EXTENDS Integers, Sequences, FiniteSets, TLC

VARIABLES
    files,      \* /tmp/<filename> -> bytes currently at that path
    handles,    \* temp-file handles currently open
    schema,     \* which tables, views, indexes and computed columns exist
    TABLES,     \* the module-level handle cache (its set of keys)
    docs,       \* rows of table docs
    chunks,     \* rows of view doc_chunks
    images,     \* rows of table images
    qa_log,     \* rows of table qa_log
    pc,         \* "idle", or "blocked" inside an external call
    last,       \* the most recent request: its input, the fault met, its outcome
    derivFail   \* per upload path: how its latest derivation failure surfaced

vars == <<files, handles, schema, TABLES, docs, chunks, images, qa_log, pc,
          last, derivFail>>

\* ---------------------------------------------------------------- bounds

\* Rows the store holds over all its tables.
MaxRows == 2

\* limit(3) in ask_question
K == 3

\* ---------------------------------------------------------------- inputs

\* Every upload carries the same filename, so each upload after the first
\* reuses the path /tmp/n1.
Names == {"n1"}
DocBlobs == {"D1", "D2"}
ImgBlobs == {"I1", "I2"}
Questions == {"q1", "q2"}
NoFile == "absent"
Partial == "truncated"

\* Calls of the handlers that can raise (or, for "hang", never return).
InitFaults == {"create_docs", "create_view", "add_index", "create_images",
               "add_vision"}
UploadFaults == {"none", "copy", "insert", "hang"} \cup InitFaults
AskFaults == {"none", "create_qa", "add_answer", "insert", "hang"} \cup InitFaults

\* The sentences of each document, in source order (DocumentSplitter with
\* separators='sentence' yields one chunk per sentence).
Sentences(blob) ==
    IF blob = "D1" THEN <<"sky", "grass">>
    ELSE IF blob = "D2" THEN <<"water">>
    ELSE <<>>

\* Similarity of a chunk text to a question under the embedding index.
Sim(q, text) ==
    IF q = "q1" THEN (IF text = "sky" THEN 3 ELSE 1)
    ELSE (IF text = "water" THEN 3 ELSE IF text = "grass" THEN 2 ELSE 1)

\* The text the vision model returns for an image.
VisionText(blob) == <<"description of", blob>>

\* The text the generation model returns for an input text.
GenText(input) == <<"answer to">> \o input

Min(a, b) == IF a < b THEN a ELSE b

Range(s) == {s[i] : i \in DOMAIN s}

\* ---------------------------------------------------------------- schema

EmptySchema ==
    [docs |-> FALSE, chunks |-> FALSE, index |-> FALSE, images |-> FALSE,
     vision |-> FALSE, qa |-> FALSE, answer |-> FALSE]

\* init_pixeltable: "try get_table, except create" for docs, doc_chunks
\* (+ embedding index) and images (+ vision_description).  fault names the
\* call that raises if it is reached.  Returns whether it returned and the
\* schema it leaves behind.
InitPixeltable(s, fault) ==
    LET f1 == ~s.docs /\ fault = "create_docs"
        s1 == [s EXCEPT !.docs = TRUE]
        f2 == ~s1.chunks /\ fault = "create_view"
        s2 == [s1 EXCEPT !.chunks = TRUE]
        f3 == ~s1.chunks /\ fault = "add_index"
        s3 == IF s1.chunks THEN s2 ELSE [s2 EXCEPT !.index = TRUE]
        f4 == ~s3.images /\ fault = "create_images"
        s4 == [s3 EXCEPT !.images = TRUE]
        f5 == ~s3.images /\ fault = "add_vision"
        s5 == IF s3.images THEN s4 ELSE [s4 EXCEPT !.vision = TRUE]
    IN  IF f1 THEN [ok |-> FALSE, schema |-> s]
        ELSE IF f2 THEN [ok |-> FALSE, schema |-> s1]
        ELSE IF f3 THEN [ok |-> FALSE, schema |-> s2]
        ELSE IF f4 THEN [ok |-> FALSE, schema |-> s3]
        ELSE IF f5 THEN [ok |-> FALSE, schema |-> s4]
        ELSE [ok |-> TRUE, schema |-> s5]

\* The keys get_tables stores.
Full == {"docs", "chunks", "images"}

\* get_tables: initialise only while the cache is empty; the three keys are
\* stored after init_pixeltable has returned.
GetTables(t, s, fault) ==
    IF t # {}
    THEN [ok |-> TRUE, tables |-> t, schema |-> s]
    ELSE LET r == InitPixeltable(s, fault)
         IN  [ok |-> r.ok,
              tables |-> IF r.ok THEN Full ELSE {},
              schema |-> r.schema]

\* The qa_log set-up inside ask_question.
EnsureQaLog(s, fault) ==
    IF s.qa THEN [ok |-> TRUE, schema |-> s]
    ELSE IF fault = "create_qa" THEN [ok |-> FALSE, schema |-> s]
    ELSE IF fault = "add_answer"
         THEN [ok |-> FALSE, schema |-> [s EXCEPT !.qa = TRUE]]
    ELSE [ok |-> TRUE, schema |-> [s EXCEPT !.qa = TRUE, !.answer = TRUE]]

\* ---------------------------------------------------------------- files

Stored == Len(docs) + Len(images) + Len(qa_log)

\* "with open(temp_path, 'wb') as buffer": the handle is closed when the
\* block is left, whether copyfileobj returned or raised.
WithOpenExit(h, name) == h \ {name}

\* The bytes at temp_path after the with-block: the upload, or a truncated
\* file when the copy raised.
WriteTemp(fs, name, blob, copied) ==
    [fs EXCEPT ![name] = IF copied THEN blob ELSE Partial]

\* ---------------------------------------------------------------- outcome

Outcome(endpoint, arg, blob, hit, status, body, sent, retrieved) ==
    [endpoint |-> endpoint, arg |-> arg, blob |-> blob, hit |-> hit,
     status |-> status, body |-> body, sent |-> sent, retrieved |-> retrieved]

\* ---------------------------------------------------------------- upload_doc

NewChunksDedup(rows, rowid, blob) ==
    IF \E j \in DOMAIN rows : rows[j].stored = blob THEN <<>>
    ELSE [i \in 1..Len(Sentences(blob)) |->
            [doc |-> rowid, pos |-> i, text |-> Sentences(blob)[i]]]

\* The rows the doc_chunks view derives from a new docs row.
NewChunks(rows, rowid, blob) ==
    [i \in 1..Len(Sentences(blob)) |->
        [doc |-> rowid, pos |-> i, text |-> Sentences(blob)[i]]]

\* upload_doc wraps the insert in try/except and always returns the page.
UploadDocStatus(inserted) == "page"

UploadDocBody(name, inserted) ==
    IF inserted THEN <<"Processed", name>> ELSE <<"Error">>

UploadDoc(name, blob, fault) ==
    /\ pc = "idle"
    /\ LET g == GetTables(TABLES, schema, fault)
           copied == g.ok /\ fault # "copy"
           hung == copied /\ fault = "hang"
           failed == copied /\ fault = "insert"
           inserted == copied /\ ~hung /\ ~failed
       IN  /\ inserted => Stored < MaxRows
           /\ TABLES' = g.tables
           /\ schema' = g.schema
           /\ files' = IF g.ok THEN WriteTemp(files, name, blob, copied) ELSE files
           /\ handles' = IF g.ok THEN WithOpenExit(handles \cup {name}, name)
                         ELSE handles
           /\ docs' = IF inserted
                      THEN Append(docs, [path |-> name, stored |-> files'[name]])
                      ELSE docs
           /\ chunks' = IF inserted
                        THEN chunks \o NewChunks(docs, Len(docs) + 1, files'[name])
                        ELSE chunks
           /\ pc' = IF hung THEN "blocked" ELSE "idle"
           /\ last' =
                IF ~g.ok THEN
                    Outcome("upload_doc", "", "", fault, "exception", <<>>, <<>>, <<>>)
                ELSE IF ~copied THEN
                    Outcome("upload_doc", "", "", "copy", "exception", <<>>, <<>>, <<>>)
                ELSE IF hung THEN
                    Outcome("upload_doc", "", "", "hang", "pending", <<>>, <<>>, <<>>)
                ELSE
                    Outcome("upload_doc", "", "", IF failed THEN "insert" ELSE "none",
                            UploadDocStatus(inserted), UploadDocBody(name, inserted),
                            <<>>, <<>>)
           /\ derivFail' = IF failed
                           THEN [derivFail EXCEPT !["upload_doc"] =
                                    [report |-> UploadDocStatus(inserted),
                                     rowKept |-> Len(docs') > Len(docs)]]
                           ELSE derivFail
    /\ UNCHANGED <<images, qa_log>>

\* ---------------------------------------------------------------- upload_image

Head1(rows) == IF Len(rows) = 0 THEN <<>> ELSE <<rows[1]>>

\* select(...).tail(1): the last row of the table, if any.
Tail1(rows) == IF Len(rows) = 0 THEN <<>> ELSE <<rows[Len(rows)]>>

\* upload_image calls insert outside any try: a failing insert leaves the
\* handler as an exception.
UploadImageStatus(inserted) == IF inserted THEN "page" ELSE "exception"

\* "desc = result[0]['vision_description'] if result else 'Analysis failed.'"
UploadImageBody(rows) ==
    IF Tail1(rows) # <<>> THEN Tail1(rows)[1].desc ELSE <<"Analysis failed.">>

UploadImage(name, blob, fault) ==
    /\ pc = "idle"
    /\ LET g == GetTables(TABLES, schema, fault)
           copied == g.ok /\ fault # "copy"
           hasVision == g.schema.vision
           hung == copied /\ hasVision /\ fault = "hang"
           failed == copied /\ hasVision /\ fault = "insert"
           inserted == copied /\ ~hung /\ ~failed
       IN  /\ inserted => Stored < MaxRows
           /\ TABLES' = g.tables
           /\ schema' = g.schema
           /\ files' = IF g.ok THEN WriteTemp(files, name, blob, copied) ELSE files
           /\ handles' = IF g.ok THEN WithOpenExit(handles \cup {name}, name)
                         ELSE handles
           /\ images' = IF inserted
                        THEN Append(images,
                                [path |-> name, stored |-> files'[name],
                                 desc |-> IF hasVision THEN VisionText(files'[name])
                                          ELSE <<>>])
                        ELSE images
           /\ pc' = IF hung THEN "blocked" ELSE "idle"
           /\ last' =
                IF ~g.ok THEN
                    Outcome("upload_image", "", "", fault, "exception", <<>>, <<>>, <<>>)
                ELSE IF ~copied THEN
                    Outcome("upload_image", "", "", "copy", "exception", <<>>, <<>>, <<>>)
                ELSE IF hung THEN
                    Outcome("upload_image", "", "", "hang", "pending", <<>>, <<>>, <<>>)
                ELSE IF failed THEN
                    Outcome("upload_image", "", "", "insert",
                            UploadImageStatus(inserted), <<>>, <<>>, <<>>)
                ELSE IF ~hasVision THEN
                    Outcome("upload_image", "", "", "no_column", "exception",
                            <<>>, <<>>, <<>>)
                ELSE
                    Outcome("upload_image", name, blob, "none",
                            UploadImageStatus(inserted), UploadImageBody(images'),
                            <<>>, <<>>)
           /\ derivFail' = IF failed
                           THEN [derivFail EXCEPT !["upload_image"] =
                                    [report |-> UploadImageStatus(inserted),
                                     rowKept |-> Len(images') > Len(images)]]
                           ELSE derivFail
    /\ UNCHANGED <<docs, chunks, qa_log>>

\* ---------------------------------------------------------------- ask

\* "chunks.order_by(sim, asc=False).limit(3)": the sort key is the
\* similarity alone, so rows of equal similarity come in whatever order the
\* store yields.  s is a sequence of row numbers of doc_chunks.
IsTopK(s, q, rows) ==
    /\ \A i, j \in DOMAIN s : i # j => s[i] # s[j]
    /\ \A i \in DOMAIN s : i < Len(s) =>
          Sim(q, rows[s[i]].text) >= Sim(q, rows[s[i + 1]].text)
    /\ \A j \in DOMAIN rows : j \notin Range(s) =>
          \A i \in DOMAIN s : Sim(q, rows[s[i]].text) >= Sim(q, rows[j].text)

TopK(q, rows) ==
    {s \in [1..Min(K, Len(rows)) -> DOMAIN rows] : IsTopK(s, q, rows)}

Texts(s, rows) == [i \in DOMAIN s |-> rows[s[i]].text]

\* "\n".join(texts)
RECURSIVE Join(_)
Join(texts) ==
    IF Len(texts) = 0 THEN <<>>
    ELSE IF Len(texts) = 1 THEN <<texts[1]>>
    ELSE <<texts[1], "\n">> \o Join(Tail(texts))

\* The f-string assigned to prompt.
Prompt(context, q) ==
    <<"\n    Context: ">> \o context \o
    <<"\n    \n    Question: ", q,
      "\n    \n    Answer concisely based on the context.\n    ">>

\* The expression of the computed column answer: what Gemini is given.
AnswerInput(q, context) == <<"Question: ", q, "\nContext: ">> \o context

\* "answer_text = result[0]['answer'] if result else 'No answer generated.'"
AskBody(rows) ==
    IF Tail1(rows) # <<>> THEN Tail1(rows)[1].answer ELSE <<"No answer generated.">>

AskOnInsertErrorCaught(rows) ==
    [status |-> "page", body |-> AskBody(rows)]

\* qa_table.insert is outside any try: a failing insert leaves the handler
\* as an exception and nothing is rendered.
AskOnInsertError(rows) ==
    [status |-> "exception", body |-> <<>>]

Ask(q, fault, sel) ==
    /\ pc = "idle"
    /\ LET g == GetTables(TABLES, schema, fault)
           searched == g.ok /\ g.schema.index
           context == Join(Texts(sel, chunks))
           e == EnsureQaLog(g.schema, fault)
           ready == searched /\ e.ok
           hasAnswer == e.schema.answer
           called == ready /\ hasAnswer
           hung == called /\ fault = "hang"
           failed == called /\ fault = "insert"
           inserted == ready /\ ~hung /\ ~failed
           sent == IF called THEN <<AnswerInput(q, context)>> ELSE <<>>
           found == IF searched THEN Texts(sel, chunks) ELSE <<>>
       IN  /\ inserted => Stored < MaxRows
           /\ TABLES' = g.tables
           /\ schema' = IF searched THEN e.schema ELSE g.schema
           /\ qa_log' = IF inserted
                        THEN Append(qa_log,
                                [question |-> q, context |-> context,
                                 hasAnswer |-> hasAnswer,
                                 answer |-> IF hasAnswer
                                            THEN GenText(AnswerInput(q, context))
                                            ELSE <<>>])
                        ELSE qa_log
           /\ pc' = IF hung THEN "blocked" ELSE "idle"
           /\ last' =
                IF ~g.ok THEN
                    Outcome("ask", "", "", fault, "exception", <<>>, <<>>, <<>>)
                ELSE IF ~searched THEN
                    Outcome("ask", "", "", "no_index", "exception", <<>>, <<>>, <<>>)
                ELSE IF ~e.ok THEN
                    Outcome("ask", q, "", fault, "exception", <<>>, <<>>, found)
                ELSE IF hung THEN
                    Outcome("ask", q, "", "hang", "pending", <<>>, sent, found)
                ELSE IF failed THEN
                    Outcome("ask", q, "", "insert", AskOnInsertError(qa_log').status,
                            AskOnInsertError(qa_log').body, sent, found)
                ELSE IF ~hasAnswer THEN
                    Outcome("ask", q, "", "no_column", "exception", <<>>, sent, found)
                ELSE
                    Outcome("ask", q, "", "none", "page", AskBody(qa_log'), sent, found)
    /\ UNCHANGED <<files, handles, docs, chunks, images, derivFail>>

\* One /ask request: the store picks the order of the rows it returns, the
\* environment which call fails.
AskQuestion(q) ==
    \E sel \in TopK(q, chunks) : \E fault \in AskFaults : Ask(q, fault, sel)

\* ---------------------------------------------------------------- restart

\* A new process (uvicorn reload, a cold start): the module-level cache is
\* empty again, the store under /tmp keeps what it holds.
Restart ==
    /\ pc = "idle"
    /\ TABLES # {}
    /\ TABLES' = {}
    /\ UNCHANGED <<files, handles, schema, docs, chunks, images, qa_log, pc,
                   last, derivFail>>

\* ---------------------------------------------------------------- spec

NoFailure == [report |-> "none", rowKept |-> FALSE]

Init ==
    /\ files = [n \in Names |-> NoFile]
    /\ handles = {}
    /\ schema = EmptySchema
    /\ TABLES = {}
    /\ docs = <<>>
    /\ chunks = <<>>
    /\ images = <<>>
    /\ qa_log = <<>>
    /\ pc = "idle"
    /\ last = Outcome("none", "", "", "none", "none", <<>>, <<>>, <<>>)
    /\ derivFail = [e \in {"upload_doc", "upload_image"} |-> NoFailure]

Next ==
    \/ \E name \in Names, blob \in DocBlobs, fault \in UploadFaults :
          UploadDoc(name, blob, fault)
    \/ \E name \in Names, blob \in ImgBlobs, fault \in UploadFaults :
          UploadImage(name, blob, fault)
    \/ \E q \in Questions : AskQuestion(q)
    \/ Restart

Spec == Init /\ [][Next]_vars

\* A process blocked in an external call stays blocked: no handler arms a
\* timeout.  Every step the program can take is taken eventually.
LiveSpec == Spec /\ WF_vars(Next)

\* ---------------------------------------------------------------- helpers

ChunksOfDoc(ds, cs, d) ==
    Cardinality({i \in DOMAIN cs : ds[cs[i].doc].stored = d})

RowsOfDoc(ds, d) == Cardinality({j \in DOMAIN ds : ds[j].stored = d})

\* Within s, and against the rows s leaves out, equal similarity is decided
\* by insertion order.
IsStable(s, q, rows) ==
    /\ \A i, j \in DOMAIN s :
          (i < j /\ Sim(q, rows[s[i]].text) = Sim(q, rows[s[j]].text)) => s[i] < s[j]
    /\ \A j \in DOMAIN rows : j \notin Range(s) =>
          \A i \in DOMAIN s :
              Sim(q, rows[s[i]].text) = Sim(q, rows[j].text) => s[i] < j

StableTopK(q, rows) == CHOOSE s \in TopK(q, rows) : IsStable(s, q, rows)

Referenced(n) ==
    \/ \E i \in DOMAIN docs : docs[i].path = n
    \/ \E i \in DOMAIN images : images[i].path = n

\* ---------------------------------------------------------------- claims

\* C1: the description an upload_image request returns is the vision text of
\* the row that request inserted (the last row, holding the bytes just
\* uploaded), so after uploading a different image the description shown is
\* the new image's, never an earlier one's.
C1_DescriptionOfOwnUpload ==
    (last.endpoint = "upload_image" /\ last.status = "page") =>
        /\ images # <<>>
        /\ images[Len(images)].stored = last.blob
        /\ images[Len(images)].path = last.arg
        /\ last.body = images[Len(images)].desc
        /\ last.body = VisionText(last.blob)

C1_Witness ==
    /\ last.endpoint = "upload_image"
    /\ last.status = "page"
    /\ Len(images) = 2
    /\ images[1].stored # images[2].stored

\* C2: when the generation call fails during ask, the request ends as an
\* error, qa_log gains no record with an answer, and what the caller is shown
\* is not the answer of an earlier record.
C2_GenerationFailure ==
    [][(last' # last /\ last'.endpoint = "ask" /\ last'.hit = "insert") =>
          /\ last'.status = "exception"
          /\ \A i \in DOMAIN qa_log :
                qa_log[i].hasAnswer => last'.body # qa_log[i].answer
          /\ Len(qa_log') >= Len(qa_log)
          /\ \A i \in DOMAIN qa_log : qa_log'[i] = qa_log[i]
          /\ \A i \in DOMAIN qa_log' :
                i > Len(qa_log) => ~qa_log'[i].hasAnswer]_vars

C2_Witness ==
    /\ last.endpoint = "ask"
    /\ last.hit = "insert"
    /\ Len(qa_log) = 1
    /\ qa_log[1].hasAnswer

\* C3: the bytes at the path of every docs and images row are the bytes
\* uploaded when the row was inserted.
C3_StoredBytesImmutable ==
    /\ \A i \in DOMAIN docs : files[docs[i].path] = docs[i].stored
    /\ \A i \in DOMAIN images : files[images[i].path] = images[i].stored

\* C4: a derivation failure is detectable, and the two upload paths apply
\* the same policy and report it the same way.
C4_UniformDerivationFailure ==
    /\ \A e \in DOMAIN derivFail : derivFail[e].report # "silent"
    /\ (derivFail["upload_doc"] # NoFailure /\ derivFail["upload_image"] # NoFailure)
          => derivFail["upload_doc"] = derivFail["upload_image"]

\* C5: ask gives the generation model exactly one text, the prompt template
\* around the retrieved context and the question, and the record persisted
\* holds the question, that context and the answer.
C5_PromptIsModelInput ==
    (last.endpoint = "ask" /\ last.sent # <<>>) =>
        /\ Len(last.sent) = 1
        /\ last.sent[1] = Prompt(Join(last.retrieved), last.arg)
        /\ last.status = "page" =>
              /\ qa_log # <<>>
              /\ qa_log[Len(qa_log)].question = last.arg
              /\ qa_log[Len(qa_log)].context = Join(last.retrieved)
              /\ qa_log[Len(qa_log)].answer = last.body

\* C6: a request inside an external call eventually returns to its caller.
C6_RequestReturns == (pc = "blocked") ~> (pc = "idle")

\* C7: once a request is over, no temp-file handle is open and no file is
\* left under /tmp that no stored row refers to.
C7_TempFileReleased ==
    pc = "idle" =>
        /\ handles = {}
        /\ \A n \in Names : files[n] # NoFile => Referenced(n)

\* C8: uploading a document that is stored once appends a second docs row
\* and doubles the number of doc_chunks rows derived from that document.
C8_ChunkCountDoubles ==
    [][\A d \in DocBlobs :
          (/\ Len(docs') = Len(docs) + 1
           /\ docs'[Len(docs')].stored = d
           /\ RowsOfDoc(docs, d) = 1)
          => /\ RowsOfDoc(docs', d) = 2
             /\ ChunksOfDoc(docs', chunks', d) = 2 * ChunksOfDoc(docs, chunks, d)
             /\ \A i \in DOMAIN chunks : chunks'[i] = chunks[i]]_vars

C8_Witness ==
    /\ Len(docs) = 2
    /\ docs[1].stored = docs[2].stored
    /\ Len(Sentences(docs[1].stored)) > 0
    /\ ChunksOfDoc(docs, chunks, docs[1].stored) = 2 * Len(Sentences(docs[1].stored))

\* C9: the retrieval of ask returns at most 3 chunk texts, by non-increasing
\* similarity, rows of equal similarity in insertion order: the one sequence
\* that order determines.
C9_StableRetrieval ==
    (last.endpoint = "ask" /\ last.arg # "") =>
        /\ Len(last.retrieved) <= K
        /\ last.retrieved = Texts(StableTopK(last.arg, chunks), chunks)

\* C10: the cache is empty or holds all three handles, and an initialisation
\* that succeeded has left the full schema: the embedding index on
\* doc_chunks, vision_description on images, answer on qa_log.
C10_SchemaComplete ==
    /\ TABLES \in {{}, Full}
    /\ TABLES # {} =>
          /\ schema.docs /\ schema.chunks /\ schema.index
          /\ schema.images /\ schema.vision
    /\ (last.endpoint = "ask" /\ last.hit \in {"none", "insert", "hang", "no_column"})
          => (schema.qa /\ schema.answer)

====
